---- MODULE Spec2Model ----
(***************************************************************************)
(* Query gateway of src/app.py: the POST /query handler execute_query, the *)
(* function execute_db_query it calls, and the GET /test-connection probe  *)
(* test_connection, against a store (psycopg2) whose every call may raise. *)
(***************************************************************************)
EXTENDS Integers, Sequences, FiniteSets, TLC

\* ---------------------------------------------------------------- bounds
NumCalls == 2      \* handler instances of POST /query the transport may run
MaxCols == 2       \* widest result-set description the store returns
MaxRows == 2       \* most rows a fetchall returns
MaxAffected == 1   \* largest affected-row count the store reports

Calls == 1..NumCalls
PROBE == NumCalls + 1            \* actor id of test_connection
ConnIds == 1..(NumCalls + 1)     \* a connection is named after the handler that opens it
ColumnNames == {"x", "y"}

\* ------------------------------------------------------- Python values
None == <<>>
Some(v) == <<v>>

PyNone == <<"None">>
PyInt == <<"int", "1">>
PyDatetime == <<"datetime", "2024-01-01 00:00:00">>
CellValues == {PyNone, PyInt, PyDatetime}

HasIsoformat(value) == value[1] = "datetime"
Isoformat(value) == <<"str", "2024-01-01T00:00:00">>

\* lines 145-150: the JSON-serialisable form of one cell
ConvertValue(value) ==
    IF value = PyNone THEN PyNone
    ELSE IF HasIsoformat(value) THEN Isoformat(value)
    ELSE value

\* lines 143-150: row_dict after the first i cells of row were stored under
\* columns[i]; a later cell overwrites an earlier one of the same name
RECURSIVE RowDict(_, _, _)
RowDict(columns, row, i) ==
    IF i = 0 THEN [k \in {} |-> PyNone]
    ELSE LET prev == RowDict(columns, row, i - 1)
         IN  [k \in (DOMAIN prev) \cup {columns[i]} |->
                 IF k = columns[i] THEN ConvertValue(row[i]) ELSE prev[k]]

\* lines 140-151
BuildData(columns, results) ==
    [r \in 1..Len(results) |-> RowDict(columns, results[r], Len(results[r]))]

\* line 135: columns = [desc[0] for desc in cursor.description]
ColumnsOf(description) == [i \in 1..Len(description) |-> description[i][1]]

\* line 133: truthiness of cursor.description (None and () are falsy)
Truthy(description) == description # None /\ Len(description[1]) > 0

\* line 133
TakesFetchPath(fetch_results, description) == fetch_results /\ Truthy(description)

RowCountRaw(rowcount) == rowcount
\* line 163
RowCountOf(rowcount) == IF rowcount # -1 THEN rowcount ELSE 0

FetchResponseMiscount(columns, results) ==
    [success |-> TRUE, data |-> Some(BuildData(columns, results)),
     columns |-> Some(columns), row_count |-> Len(results) + 1,
     message |-> "Query executed successfully. Found " \o ToString(Len(results)) \o " rows."]
\* lines 153-159
FetchResponse(columns, results) ==
    [success |-> TRUE, data |-> Some(BuildData(columns, results)),
     columns |-> Some(columns), row_count |-> Len(results),
     message |-> "Query executed successfully. Found " \o ToString(Len(results)) \o " rows."]

\* lines 165-171
AffectedResponse(row_count) ==
    [success |-> TRUE, data |-> None, columns |-> None, row_count |-> row_count,
     message |-> "Query executed successfully. " \o ToString(row_count) \o " rows affected."]

\* ---------------------------------------------------------- exceptions
NoExc == [cls |-> "none", text |-> ""]
Exceptions ==
    { [cls |-> "psycopg2.Error", text |-> ""],
      [cls |-> "psycopg2.Error", text |-> "connection already closed"],
      [cls |-> "Exception", text |-> "unexpected"] }
NameError == [cls |-> "NameError", text |-> "name 'DB_HOST' is not defined"]

\* lines 173, 184: which except clause catches e, as the message prefix
HandlerPrefix(e) ==
    IF e.cls = "psycopg2.Error" THEN "Database error: " ELSE "Unexpected error: "

\* lines 177-183, 188-194
FailureResponse(e) ==
    [success |-> FALSE, data |-> None, columns |-> None, row_count |-> 0,
     message |-> HandlerPrefix(e) \o e.text]

\* ------------------------------------------------------- configuration
Legacy == {"absent", "malformed", "wellformed"}
AzureHost == "tessapocserver.postgres.database.azure.com"

\* lines 32-71: CONNECTION_STRING, as its parts, for one environment of each
\* kind: no connection_string; connection_string = "user@pw@host:5432/db";
\* connection_string = a postgresql:// URL naming the Azure host with sslmode
BuildConnectionString(legacy) ==
    CASE legacy = "absent" ->
           <<"postgresql://", "TessaDBAdmin@tessapocserver", ":", "Admin@1234", "@",
             AzureHost, ":", "5432", "/", "tessa">>
      [] legacy = "malformed" ->
           <<"postgresql://", "user", ":", "pw", "@", "host", ":", "5432", "/", "None">>
      [] legacy = "wellformed" ->
           <<"postgresql://", "u", ":", "p", "@", AzureHost, ":", "5432", "/", "tessa",
             "?", "sslmode", "=", "require">>

\* lines 34-71: whether DB_HOST, DB_PORT and DB_NAME are bound at module level
EnvNamesBound(legacy) == legacy # "wellformed"

Contains(cs, part) == \E i \in 1..Len(cs) : cs[i] = part

\* lines 115-122
SslConnection(cs) ==
    IF Contains(cs, AzureHost)
    THEN IF ~Contains(cs, "sslmode") THEN cs \o <<"?", "sslmode", "=", "require">> ELSE cs
    ELSE cs

\* -------------------------------------------------------------- state
VARIABLES
    legacy,             \* kind of the connection_string environment variable
    CONNECTION_STRING,  \* module-level descriptor, lines 58, 62, 71
    dispatch,           \* "loop": one handler at a time; "threads": interleaved
    store,              \* what the store may answer: descriptions, rowcounts, rows
    frame,              \* per /query handler: locals of execute_query/execute_db_query
    conns,              \* the store's connections (and the cursor of each)
    probe               \* locals of test_connection

vars == <<legacy, CONNECTION_STRING, dispatch, store, frame, conns, probe>>

Phase(pc) ==
    CASE pc \in {"connect", "cursor"} -> "Connecting"
      [] pc = "execute" -> "Executing"
      [] pc = "fetch" -> "Fetching"
      [] pc = "commit" -> "Committing"
      [] pc = "except" -> "Failed"
      [] OTHER -> "Closed"

IdleFrame ==
    [pc |-> "idle", fetch_results |-> TRUE, conn |-> 0, cursor |-> 0,
     ret |-> None, exc |-> NoExc, trace |-> <<>>, hist |-> <<>>,
     raised |-> <<>>, http |-> None]

\* lines 103-108, 243
NewFrame(fetch_results) ==
    [IdleFrame EXCEPT !.pc = "connect", !.fetch_results = fetch_results,
                      !.hist = <<"Connecting">>]

FreeConn ==
    [state |-> "free", opener |-> 0, dsn |-> <<>>, committed |-> FALSE,
     rolledback |-> FALSE, users |-> {}, cur |-> "none", curUsers |-> {},
     description |-> None, rowcount |-> -1]

IdleProbe ==
    [pc |-> "idle", conn |-> 0, cursor |-> 0, version |-> None,
     ret |-> None, exc |-> NoExc, raised |-> <<>>, http |-> None]

\* the frame f moved to program point pc, its phase history extended
Goto(f, pc) ==
    [f EXCEPT !.pc = pc,
              !.hist = IF Phase(pc) = f.hist[Len(f.hist)] THEN @ ELSE Append(@, Phase(pc))]

Did(f, op) == [f EXCEPT !.trace = Append(@, op)]

InFlight == {c \in Calls : frame[c].pc # "idle"}

\* request-per-call dispatch: the event loop runs one handler to completion
\* (the handlers are async def without an await), threads interleave them
Running == Cardinality(InFlight) + (IF probe.pc = "idle" THEN 0 ELSE 1)

CanDispatch ==
    IF dispatch = "loop" THEN Running = 0 ELSE Running < NumCalls

Min(S) == CHOOSE m \in S : \A n \in S : m <= n

\* the handlers in flight, other than a, that a store call has raised in
Faulty(a) ==
    {c \in Calls \ {a} : frame[c].raised # <<>>}
        \cup (IF a # PROBE /\ probe.raised # <<>> THEN {PROBE} ELSE {})

\* a store call of handler a may raise; in interleaved runs the store's
\* faults hit one handler in flight at a time
CanRaise(a) == dispatch = "loop" \/ Faulty(a) = {}

ConnOfShared(c) ==
    IF \E k \in ConnIds : conns[k].state = "open" /\ conns[k].opener # c
    THEN CHOOSE k \in ConnIds : conns[k].state = "open" /\ conns[k].opener # c
    ELSE frame[c].conn
\* the connection the statements of call c act on: its local conn, line 107
ConnOf(c) == frame[c].conn

Descriptions ==
    {None} \cup
    {Some(d) : d \in UNION {[1..n -> {<<name, "int4">> : name \in ColumnNames}] : n \in 0..MaxCols}}

ResultSets(width) ==
    UNION {[1..n -> [1..width -> CellValues]] : n \in 0..store.maxRows}

FullStore ==
    [descriptions |-> Descriptions, rowcounts |-> -1..MaxAffected, maxRows |-> MaxRows,
     exceptions |-> Exceptions]

\* the store of the interleaved runs, the least one that drives every branch:
\* one-column or absent description, unknown affected-row count, empty
\* relations, one kind of error
SmallStore ==
    [descriptions |-> {None, Some(<<<<"x", "int4">>>>)}, rowcounts |-> {-1},
     maxRows |-> 0, exceptions |-> {[cls |-> "psycopg2.Error", text |-> ""]}]

OnErrorRetry(pc) == IF pc = "connect" THEN "connect" ELSE "except"
\* lines 173, 184: a raise inside the try block transfers to an except clause
OnError(pc) == "except"

\* ------------------------------------------------- POST /query handler
\* lines 234-243: a request is dispatched; execute_db_query is entered
Request(c) ==
    /\ frame[c].pc = "idle"
    /\ c = Min({d \in Calls : frame[d].pc = "idle"})
    /\ CanDispatch
    /\ \E fetch_results \in BOOLEAN :
          frame' = [frame EXCEPT ![c] = NewFrame(fetch_results)]
    /\ UNCHANGED <<legacy, CONNECTION_STRING, dispatch, store, conns, probe>>

\* lines 115-126: psycopg2.connect(ssl_connection) returns a connection
Connect(c) ==
    /\ frame[c].pc = "connect"
    /\ LET k == c IN
          /\ conns' = [conns EXCEPT ![k] =
                 [FreeConn EXCEPT !.state = "open", !.opener = c,
                                  !.dsn = SslConnection(CONNECTION_STRING)]]
          /\ frame' = [frame EXCEPT ![c] =
                 Goto(Did([@ EXCEPT !.conn = k], "connect"), "cursor")]
    /\ UNCHANGED <<legacy, CONNECTION_STRING, dispatch, store, probe>>

\* line 127: conn.cursor()
Cursor(c) ==
    /\ frame[c].pc = "cursor"
    /\ LET k == ConnOf(c) IN
          /\ conns' = [conns EXCEPT ![k].cur = "open", ![k].users = @ \cup {c}]
          /\ frame' = [frame EXCEPT ![c] =
                 Goto(Did([@ EXCEPT !.cursor = k], "cursor"), "execute")]
    /\ UNCHANGED <<legacy, CONNECTION_STRING, dispatch, store, probe>>

\* lines 131-133: cursor.execute(query) succeeds; the store sets the cursor's
\* description and rowcount; the branch of line 133 is taken
Execute(c) ==
    /\ frame[c].pc = "execute"
    /\ \E description \in store.descriptions, rowcount \in store.rowcounts :
          LET k == frame[c].cursor IN
          /\ conns' = [conns EXCEPT ![k].description = description,
                                    ![k].rowcount = rowcount,
                                    ![k].curUsers = @ \cup {c}]
          /\ frame' = [frame EXCEPT ![c] =
                 Goto(Did(@, "execute"),
                      IF TakesFetchPath(frame[c].fetch_results, description)
                      THEN "fetch" ELSE "commit")]
    /\ UNCHANGED <<legacy, CONNECTION_STRING, dispatch, store, probe>>

\* lines 135-159: column names, fetchall, conversion, the return value
FetchAll(c) ==
    /\ frame[c].pc = "fetch"
    /\ LET k == frame[c].cursor
           columns == ColumnsOf(conns[k].description[1])
       IN  /\ \E results \in ResultSets(Len(columns)) :
                 frame' = [frame EXCEPT ![c] =
                     Goto(Did([@ EXCEPT !.ret = Some(FetchResponse(columns, results))],
                              "fetchall"), "finally")]
           /\ conns' = [conns EXCEPT ![k].curUsers = @ \cup {c}]
    /\ UNCHANGED <<legacy, CONNECTION_STRING, dispatch, store, probe>>

\* lines 162-171: conn.commit(), then the affected-row response
Commit(c) ==
    /\ frame[c].pc = "commit"
    /\ LET k == ConnOf(c)
           row_count == RowCountOf(conns[frame[c].cursor].rowcount)
       IN  /\ conns' = [conns EXCEPT ![k].committed = TRUE, ![k].users = @ \cup {c}]
           /\ frame' = [frame EXCEPT ![c] =
                  Goto(Did([@ EXCEPT !.ret = Some(AffectedResponse(row_count))],
                           "commit"), "finally")]
    /\ UNCHANGED <<legacy, CONNECTION_STRING, dispatch, store, probe>>

StepOp(pc) ==
    CASE pc = "connect" -> "connect"
      [] pc = "cursor" -> "cursor"
      [] pc = "execute" -> "execute"
      [] pc = "fetch" -> "fetchall"
      [] pc = "commit" -> "commit"

\* lines 126-162: the store call at the current step raises e
StepRaises(c) ==
    /\ CanRaise(c)
    /\ frame[c].pc \in {"connect", "cursor", "execute", "fetch", "commit"}
    /\ \E e \in store.exceptions :
          frame' = [frame EXCEPT ![c] =
              Goto(Did([@ EXCEPT !.exc = e, !.raised = Append(@, e.cls)],
                       StepOp(frame[c].pc)), OnError(frame[c].pc))]
    /\ conns' = CASE frame[c].pc = "connect" -> conns
                  [] frame[c].pc \in {"cursor", "commit"} ->
                       [conns EXCEPT ![ConnOf(c)].users = @ \cup {c}]
                  [] OTHER ->
                       [conns EXCEPT ![frame[c].cursor].curUsers = @ \cup {c}]
    /\ UNCHANGED <<legacy, CONNECTION_STRING, dispatch, store, probe>>

\* lines 175-183, 186-194: the except clause; rollback when conn is set
Handle(c) ==
    /\ frame[c].pc = "except"
    /\ IF frame[c].conn # 0
       THEN /\ conns' = [conns EXCEPT ![ConnOf(c)].rolledback = TRUE,
                                      ![ConnOf(c)].users = @ \cup {c}]
            /\ frame' = [frame EXCEPT ![c] =
                   Goto(Did([@ EXCEPT !.ret = Some(FailureResponse(frame[c].exc)),
                                      !.exc = NoExc], "rollback"), "finally")]
       ELSE /\ conns' = conns
            /\ frame' = [frame EXCEPT ![c] =
                   Goto([@ EXCEPT !.ret = Some(FailureResponse(frame[c].exc)),
                                  !.exc = NoExc], "finally")]
    /\ UNCHANGED <<legacy, CONNECTION_STRING, dispatch, store, probe>>

\* lines 176, 187: conn.rollback() raises inside the except clause; the new
\* exception leaves the clause, the finally clause still runs
RollbackRaises(c) ==
    /\ CanRaise(c)
    /\ frame[c].pc = "except"
    /\ frame[c].conn # 0
    /\ \E e \in store.exceptions :
          frame' = [frame EXCEPT ![c] =
              Goto(Did([@ EXCEPT !.exc = e, !.raised = Append(@, e.cls)],
                       "rollback"), "finally")]
    /\ conns' = [conns EXCEPT ![ConnOf(c)].users = @ \cup {c}]
    /\ UNCHANGED <<legacy, CONNECTION_STRING, dispatch, store, probe>>

ClosesConnNever(conn) == FALSE
\* line 199: if conn:
ClosesConn(conn) == conn # 0

\* lines 197-198: if cursor: cursor.close()
CursorClose(c) ==
    /\ frame[c].pc = "finally"
    /\ frame[c].cursor # 0
    /\ conns' = [conns EXCEPT ![frame[c].cursor].cur = "closed",
                              ![frame[c].cursor].curUsers = @ \cup {c}]
    /\ frame' = [frame EXCEPT ![c] = Goto(Did(@, "cursor.close"), "close")]
    /\ UNCHANGED <<legacy, CONNECTION_STRING, dispatch, store, probe>>

\* line 198: cursor.close() raises inside the finally clause: the pending
\* return value is dropped, lines 199-200 are skipped, the call raises
CursorCloseRaises(c) ==
    /\ CanRaise(c)
    /\ frame[c].pc = "finally"
    /\ frame[c].cursor # 0
    /\ \E e \in store.exceptions :
          frame' = [frame EXCEPT ![c] =
              Goto(Did([@ EXCEPT !.exc = e, !.ret = None, !.raised = Append(@, e.cls)],
                       "cursor.close"), "exit")]
    /\ conns' = [conns EXCEPT ![frame[c].cursor].curUsers = @ \cup {c}]
    /\ UNCHANGED <<legacy, CONNECTION_STRING, dispatch, store, probe>>

\* lines 199-200: if conn: conn.close(); then the call returns or raises
ConnClose(c) ==
    /\ \/ frame[c].pc = "close"
       \/ frame[c].pc = "finally" /\ frame[c].cursor = 0
    /\ IF ClosesConn(frame[c].conn)
       THEN /\ conns' = [conns EXCEPT ![ConnOf(c)].state = "closed",
                                      ![ConnOf(c)].users = @ \cup {c}]
            /\ frame' = [frame EXCEPT ![c] = Goto(Did(@, "conn.close"), "exit")]
       ELSE /\ conns' = conns
            /\ frame' = [frame EXCEPT ![c] = Goto(@, "exit")]
    /\ UNCHANGED <<legacy, CONNECTION_STRING, dispatch, store, probe>>

\* lines 242-246: QueryResponse(**result) with status 200, or HTTPException 500
Respond(c) ==
    /\ frame[c].pc = "exit"
    /\ frame' = [frame EXCEPT ![c] =
          Goto([@ EXCEPT !.http =
                    IF frame[c].exc = NoExc
                    THEN Some([status |-> 200, body |-> frame[c].ret, detail |-> ""])
                    ELSE Some([status |-> 500, body |-> None,
                               detail |-> "Internal server error: " \o frame[c].exc.text])],
               "responded")]
    /\ UNCHANGED <<legacy, CONNECTION_STRING, dispatch, store, conns, probe>>

\* the transport sends the response; the handler's frame is discarded and
\* the connection it opened is dropped from the model
Deliver(c) ==
    /\ frame[c].pc = "responded"
    /\ frame' = [frame EXCEPT ![c] = IdleFrame]
    /\ conns' = [k \in ConnIds |->
                    IF conns[k].state # "free" /\ conns[k].opener = c
                    THEN FreeConn ELSE conns[k]]
    /\ UNCHANGED <<legacy, CONNECTION_STRING, dispatch, store, probe>>


\* ------------------------------------------ GET /test-connection probe
\* lines 224, 230: f"{DB_HOST}:{DB_PORT}/{DB_NAME}" where the names are bound
ConnectionInfo(kind) ==
    IF kind = "absent" THEN AzureHost \o ":5432/tessa" ELSE "host:5432/None"

\* lines 220-225
ProbeSuccess(version, kind) ==
    [success |-> TRUE, message |-> "Database connection successful",
     postgres_version |-> IF version # None THEN version[1][1] ELSE "Unknown",
     connection_info |-> ConnectionInfo(kind)]

\* lines 227-231
ProbeFailure(e, kind) ==
    [success |-> FALSE, message |-> "Database connection failed: " \o e.text,
     connection_info |-> ConnectionInfo(kind)]

\* lines 209-212: the probe is dispatched
ProbeStart ==
    /\ probe.pc = "idle"
    /\ CanDispatch
    /\ probe' = [IdleProbe EXCEPT !.pc = "connect"]
    /\ UNCHANGED <<legacy, CONNECTION_STRING, dispatch, store, frame, conns>>

\* line 213: psycopg2.connect(CONNECTION_STRING)
ProbeConnect ==
    /\ probe.pc = "connect"
    /\ LET k == PROBE IN
          /\ conns' = [conns EXCEPT ![k] =
                 [FreeConn EXCEPT !.state = "open", !.opener = PROBE,
                                  !.dsn = CONNECTION_STRING]]
          /\ probe' = [probe EXCEPT !.conn = k, !.pc = "cursor"]
    /\ UNCHANGED <<legacy, CONNECTION_STRING, dispatch, store, frame>>

\* line 214
ProbeCursor ==
    /\ probe.pc = "cursor"
    /\ conns' = [conns EXCEPT ![probe.conn].cur = "open",
                              ![probe.conn].users = @ \cup {PROBE}]
    /\ probe' = [probe EXCEPT !.cursor = probe.conn, !.pc = "execute"]
    /\ UNCHANGED <<legacy, CONNECTION_STRING, dispatch, store, frame>>

\* line 215: cursor.execute("SELECT version();")
ProbeExecute ==
    /\ probe.pc = "execute"
    /\ conns' = [conns EXCEPT ![probe.cursor].curUsers = @ \cup {PROBE},
                              ![probe.cursor].description = Some(<<<<"version", "text">>>>),
                              ![probe.cursor].rowcount = 1]
    /\ probe' = [probe EXCEPT !.pc = "fetchone"]
    /\ UNCHANGED <<legacy, CONNECTION_STRING, dispatch, store, frame>>

\* line 216: cursor.fetchone() returns a row or None
ProbeFetchOne ==
    /\ probe.pc = "fetchone"
    /\ \E version \in {None, Some(<<"PostgreSQL 14.9">>)} :
          probe' = [probe EXCEPT !.version = version, !.pc = "cursor_close"]
    /\ conns' = [conns EXCEPT ![probe.cursor].curUsers = @ \cup {PROBE}]
    /\ UNCHANGED <<legacy, CONNECTION_STRING, dispatch, store, frame>>

\* line 217
ProbeCursorClose ==
    /\ probe.pc = "cursor_close"
    /\ conns' = [conns EXCEPT ![probe.cursor].cur = "closed",
                              ![probe.cursor].curUsers = @ \cup {PROBE}]
    /\ probe' = [probe EXCEPT !.pc = "conn_close"]
    /\ UNCHANGED <<legacy, CONNECTION_STRING, dispatch, store, frame>>

\* line 218
ProbeConnClose ==
    /\ probe.pc = "conn_close"
    /\ conns' = [conns EXCEPT ![probe.conn].state = "closed",
                              ![probe.conn].users = @ \cup {PROBE}]
    /\ probe' = [probe EXCEPT !.pc = "return"]
    /\ UNCHANGED <<legacy, CONNECTION_STRING, dispatch, store, frame>>

\* lines 213-217: the store call at the current step raises e
ProbeStepRaises ==
    /\ CanRaise(PROBE)
    /\ probe.pc \in {"connect", "cursor", "execute", "fetchone", "cursor_close"}
    /\ \E e \in store.exceptions :
          probe' = [probe EXCEPT !.exc = e, !.raised = Append(@, e.cls), !.pc = "except"]
    /\ conns' = CASE probe.pc = "connect" -> conns
                  [] probe.pc = "cursor" ->
                       [conns EXCEPT ![probe.conn].users = @ \cup {PROBE}]
                  [] OTHER ->
                       [conns EXCEPT ![probe.cursor].curUsers = @ \cup {PROBE}]
    /\ UNCHANGED <<legacy, CONNECTION_STRING, dispatch, store, frame>>

\* lines 220-225: the success value is built inside the try block; reading
\* an unbound DB_HOST raises NameError there
ProbeReturn ==
    /\ probe.pc = "return"
    /\ probe' = IF EnvNamesBound(legacy)
                THEN [probe EXCEPT !.ret = Some(ProbeSuccess(probe.version, legacy)),
                                   !.pc = "exit"]
                ELSE [probe EXCEPT !.exc = NameError, !.pc = "except"]
    /\ UNCHANGED <<legacy, CONNECTION_STRING, dispatch, store, frame, conns>>

\* lines 226-231: the except clause builds the failure value; reading an
\* unbound DB_HOST raises NameError out of the handler
ProbeExcept ==
    /\ probe.pc = "except"
    /\ probe' = IF EnvNamesBound(legacy)
                THEN [probe EXCEPT !.ret = Some(ProbeFailure(probe.exc, legacy)),
                                   !.exc = NoExc, !.pc = "exit"]
                ELSE [probe EXCEPT !.exc = NameError, !.pc = "exit"]
    /\ UNCHANGED <<legacy, CONNECTION_STRING, dispatch, store, frame, conns>>

\* the framework answers 200 with the returned value, 500 when the handler raised
ProbeRespond ==
    /\ probe.pc = "exit"
    /\ probe' = [probe EXCEPT !.pc = "responded",
                    !.http = IF probe.exc = NoExc
                             THEN Some([status |-> 200, body |-> probe.ret])
                             ELSE Some([status |-> 500, body |-> None])]
    /\ UNCHANGED <<legacy, CONNECTION_STRING, dispatch, store, frame, conns>>

\* the response is sent; the frame is discarded and its connection dropped
ProbeDeliver ==
    /\ probe.pc = "responded"
    /\ probe' = IdleProbe
    /\ conns' = [k \in ConnIds |->
                    IF conns[k].state # "free" /\ conns[k].opener = PROBE
                    THEN FreeConn ELSE conns[k]]
    /\ UNCHANGED <<legacy, CONNECTION_STRING, dispatch, store, frame>>

\* ------------------------------------------------------ specification
InitCommon ==
    /\ legacy \in Legacy
    /\ CONNECTION_STRING = BuildConnectionString(legacy)
    /\ frame = [c \in Calls |-> IdleFrame]
    /\ conns = [k \in ConnIds |-> FreeConn]
    /\ probe = IdleProbe

Init == InitCommon /\ dispatch = "loop" /\ store = FullStore

InitThreads ==
    InitCommon /\ legacy = "absent" /\ dispatch = "threads" /\ store = SmallStore

CallNext ==
    \E c \in Calls :
        \/ Request(c)
        \/ Connect(c)
        \/ Cursor(c)
        \/ Execute(c)
        \/ FetchAll(c)
        \/ Commit(c)
        \/ StepRaises(c)
        \/ Handle(c)
        \/ RollbackRaises(c)
        \/ CursorClose(c)
        \/ CursorCloseRaises(c)
        \/ ConnClose(c)
        \/ Respond(c)
        \/ Deliver(c)

ProbeNext ==
    \/ ProbeStart
    \/ ProbeConnect
    \/ ProbeCursor
    \/ ProbeExecute
    \/ ProbeFetchOne
    \/ ProbeCursorClose
    \/ ProbeConnClose
    \/ ProbeStepRaises
    \/ ProbeReturn
    \/ ProbeExcept
    \/ ProbeRespond
    \/ ProbeDeliver

Next == CallNext \/ ProbeNext

\* the event loop of uvicorn.run (line 250): one handler at a time
Spec == Init /\ [][Next]_vars

\* handlers of requests in flight interleaved step by step
SpecThreads == InitThreads /\ [][Next]_vars

\* ------------------------------------------------------------- claims
Returned(c) == frame[c].pc \in {"exit", "responded"}
ProbeReturned == probe.pc \in {"exit", "responded"}
OpenedBy(a) == {k \in ConnIds : conns[k].state # "free" /\ conns[k].opener = a}
Count(t, op) == Cardinality({i \in DOMAIN t : t[i] = op})
Has(t, op) == \E i \in DOMAIN t : t[i] = op

\* C1: when a call of execute_db_query has returned or raised, every
\* connection the call opened is closed, whichever step failed.
C1_OpenedConnectionsClosed ==
    \A c \in Calls :
        Returned(c) => \A k \in OpenedBy(c) : conns[k].state = "closed"

\* C2: a request in which a store call raised psycopg2.Error never leaves
\* execute_db_query as an exception and is answered with HTTP 200 carrying
\* success=false, data=null, columns=null, row_count=0, a non-empty message.
C2_DbFailureAnswered200 ==
    \A c \in Calls :
        Has(frame[c].raised, "psycopg2.Error") =>
            /\ Returned(c) => frame[c].exc = NoExc
            /\ frame[c].pc = "responded" =>
                  /\ frame[c].http[1].status = 200
                  /\ frame[c].http[1].body # None
                  /\ LET r == frame[c].http[1].body[1] IN
                        /\ r.success = FALSE
                        /\ r.data = None
                        /\ r.columns = None
                        /\ r.row_count = 0
                        /\ r.message # ""

\* C3: every response execute_db_query produces has data and columns both
\* present or both null, and row_count = number of row-mappings when present.
C3_ResponseShape ==
    \A c \in Calls :
        frame[c].ret # None =>
            LET r == frame[c].ret[1] IN
                /\ (r.data = None) <=> (r.columns = None)
                /\ r.data # None => r.row_count = Len(r.data[1])

C3_Witness ==
    \E c \in Calls :
        /\ frame[c].ret # None
        /\ frame[c].ret[1].data # None
        /\ Len(frame[c].ret[1].data[1]) = 2
        /\ frame[c].ret[1].row_count = 2

\* C4: in every successful fetch response the length of columns equals the
\* number of keys of every row-mapping of data.
C4_ColumnsMatchRowKeys ==
    \A c \in Calls :
        (frame[c].ret # None /\ frame[c].ret[1].success /\ frame[c].ret[1].data # None) =>
            LET r == frame[c].ret[1] IN
                \A i \in 1..Len(r.data[1]) :
                    Cardinality(DOMAIN r.data[1][i]) = Len(r.columns[1])

\* C5: a call in which no step failed and which did not take the fetch path
\* (fetch_results false, or description None or empty) has committed, then
\* returned success=true, data=null, columns=null and row_count = the
\* store's rowcount, with -1 reported as 0.
C5_AffectedRowPath ==
    \A c \in Calls :
        LET f == frame[c] IN
        (/\ Returned(c)
         /\ f.raised = <<>>
         /\ \/ ~f.fetch_results
            \/ conns[f.cursor].description = None
            \/ Len(conns[f.cursor].description[1]) = 0) =>
            /\ f.exc = NoExc
            /\ f.ret # None
            /\ f.ret[1].success = TRUE
            /\ f.ret[1].data = None
            /\ f.ret[1].columns = None
            /\ f.ret[1].row_count =
                   (IF conns[f.cursor].rowcount = -1 THEN 0 ELSE conns[f.cursor].rowcount)
            /\ conns[f.conn].committed
            /\ f.trace = <<"connect", "cursor", "execute", "commit", "cursor.close", "conn.close">>

C5_Witness ==
    \E c \in Calls :
        /\ Returned(c)
        /\ frame[c].raised = <<>>
        /\ frame[c].fetch_results
        /\ conns[frame[c].cursor].description = Some(<<>>)
        /\ conns[frame[c].cursor].rowcount = -1
        /\ frame[c].ret[1].row_count = 0

\* C6: test_connection never raises to its caller, whatever the
\* configuration and whichever store call failed.
C6_ProbeNeverRaises ==
    ProbeReturned => (probe.exc = NoExc /\ probe.ret # None)

\* C7: a call follows Connecting -> Executing -> (Fetching | Committing) ->
\* Closed with Failed reachable from the first three and followed by Closed
\* only; it attempts one connection, never executes before connecting and
\* never fetches or commits before executing.
PhaseEdges ==
    { <<"Connecting", "Executing">>, <<"Connecting", "Failed">>,
      <<"Executing", "Fetching">>, <<"Executing", "Committing">>,
      <<"Executing", "Failed">>, <<"Fetching", "Closed">>, <<"Fetching", "Failed">>,
      <<"Committing", "Closed">>, <<"Committing", "Failed">>, <<"Failed", "Closed">> }

C8_OwnConnectionOnly ==
    /\ CONNECTION_STRING = BuildConnectionString(legacy)
    /\ \A k \in ConnIds :
          conns[k].state # "free" =>
              /\ conns[k].users \subseteq {conns[k].opener}
              /\ conns[k].curUsers \subseteq {conns[k].opener}
    /\ \A c \in Calls :
          /\ frame[c].conn # 0 => conns[frame[c].conn].opener = c
          /\ frame[c].cursor # 0 => conns[frame[c].cursor].opener = c

C8_Witness ==
    \E c, d \in Calls :
        /\ c # d
        /\ conns[c].state = "open" /\ conns[d].state = "open"
        /\ frame[c].pc = "fetch" /\ frame[d].pc = "except"
        /\ Has(frame[d].trace, "execute")
        /\ conns[c].curUsers = {c} /\ conns[d].curUsers = {d}

\* C9: every connection test_connection opened is closed when it responds,
\* also when execute or fetch failed after the connection was established.
C9_ProbeConnectionClosed ==
    ProbeReturned => \A k \in OpenedBy(PROBE) : conns[k].state = "closed"

\* C10: commit is invoked only on the affected-row path; a call that
\* returns fetched rows has closed its connection with neither commit nor
\* rollback invoked on it.
C10_FetchNeverCommits ==
    \A c \in Calls :
        LET f == frame[c] IN
        /\ Has(f.trace, "commit") =>
              \/ ~f.fetch_results
              \/ conns[f.cursor].description = None
              \/ Len(conns[f.cursor].description[1]) = 0
        /\ (Returned(c) /\ f.exc = NoExc /\ f.ret # None /\ f.ret[1].data # None) =>
              /\ conns[f.conn].state = "closed"
              /\ ~conns[f.conn].committed
              /\ ~conns[f.conn].rolledback
              /\ ~Has(f.trace, "commit")
              /\ ~Has(f.trace, "rollback")

C10_Witness ==
    \E c \in Calls :
        /\ Returned(c)
        /\ frame[c].exc = NoExc
        /\ frame[c].ret # None
        /\ frame[c].ret[1].data # None
        /\ Len(frame[c].ret[1].data[1]) >= 1
        /\ conns[frame[c].conn].state = "closed"
====
